---- MODULE Spec2Model ----
(***************************************************************************)
(* Model of the JetBrains marketplace crawler (marketplace_crawler.py) and *)
(* of the plugin data processor (data_processor.py).                       *)
(*                                                                         *)
(* The crawler issues paginated requests and writes one snapshot file per  *)
(* page; the processor reads the snapshot directory, flattens each record  *)
(* through the field map and writes a CSV file and an sqlite table.        *)
(***************************************************************************)
EXTENDS Integers, Sequences, FiniteSets, TLC

(***************************************************************************)
(* Bounds of the model.                                                    *)
(***************************************************************************)
MaxPages == 2
MaxPageLen == 2
MaxPageSize == 2

(***************************************************************************)
(* Python / JSON values.  An integer n is held as hi * 1000 + lo so that   *)
(* an epoch in milliseconds stays inside the range of 32-bit integers.     *)
(***************************************************************************)
PyNone == [k |-> "none"]
PyInt(n) == [k |-> "int", hi |-> n \div 1000, lo |-> n % 1000]
PyMillis(secs, ms) == [k |-> "int", hi |-> secs, lo |-> ms]
PyStr(s) == [k |-> "str", s |-> s]
PyList(l) == [k |-> "list", l |-> l]
PyDict(d) == [k |-> "dict", d |-> d]
EmptyDict == [key \in {} |-> PyNone]

\* bool(value): None, 0, "", [] and {} are falsy
Truthy(v) ==
    CASE v.k = "none" -> FALSE
      [] v.k = "int" -> v.hi # 0 \/ v.lo # 0
      [] v.k = "str" -> v.s # ""
      [] v.k = "list" -> Len(v.l) > 0
      [] v.k = "dict" -> DOMAIN v.d # {}

\* d.get(key, default) on a mapping d
PyGet(d, key, default) == IF key \in DOMAIN d THEN d[key] ELSE default

\* The outcome of evaluating an expression: a value, or an exception.
Ok(v) == [ok |-> TRUE, v |-> v]
Raised == [ok |-> FALSE]

(***************************************************************************)
(* data_processor.py: the field map and the flattening of one record.      *)
(***************************************************************************)
\* self.fields in insertion order; a source path is held as the segments
\* that json_path.split('_') yields.
Fields ==
    << <<"id", <<"id">> >>,
       <<"name", <<"name">> >>,
       <<"downloads", <<"downloads">> >>,
       <<"rating", <<"rating">> >>,
       <<"pricing", <<"pricingModel">> >>,
       <<"vendor", <<"vendor", "name">> >>,
       <<"tags", <<"tags">> >>,
       <<"date", <<"cdate">> >> >>

Columns == [i \in 1..Len(Fields) |-> Fields[i][1]]

\* Lines 61-65: resolve the source path of one field in one plugin.
Resolve(plugin, path) ==
    IF plugin.k # "dict"
    THEN Raised                            \* plugin.get on a non-mapping
    ELSE IF Len(path) > 1
    THEN IF Len(path) # 2
         THEN Raised                       \* parent, child = ... cannot unpack
         ELSE LET parent == PyGet(plugin.d, path[1], PyDict(EmptyDict))
              IN  IF parent.k # "dict"
                  THEN Raised              \* .get on None, str, list, int
                  ELSE Ok(PyGet(parent.d, path[2], PyStr("")))
    ELSE Ok(PyGet(plugin.d, path[1], PyStr("")))

\* ','.join(value)
RECURSIVE Join(_)
Join(l) ==
    IF Len(l) = 0 THEN ""
    ELSE IF Len(l) = 1 THEN l[1]
    ELSE l[1] \o "," \o Join(Tail(l))

Pad2(n) == IF n < 10 THEN "0" \o ToString(n) ELSE ToString(n)

\* The proleptic Gregorian date of a day number counted from 1970-01-01.
CivilFromDays(days) ==
    LET z == days + 719468
        era == z \div 146097
        doe == z - era * 146097
        yoe == (doe - doe \div 1460 + doe \div 36524 - doe \div 146096) \div 365
        doy == doe - (365 * yoe + yoe \div 4 - yoe \div 100)
        mp == (5 * doy + 2) \div 153
        d == doy - (153 * mp + 2) \div 5 + 1
        m == IF mp < 10 THEN mp + 3 ELSE mp - 9
        y == yoe + era * 400 + (IF m <= 2 THEN 1 ELSE 0)
    IN  <<y, m, d>>

\* datetime.fromtimestamp(value / 1000).strftime('%Y-%m-%d') in the local
\* time zone, whose offset from UTC is utcoffset seconds.
FormatDate(value, utcoffset) ==
    LET ymd == CivilFromDays((value.hi + utcoffset) \div 86400)
    IN  ToString(ymd[1]) \o "-" \o Pad2(ymd[2]) \o "-" \o Pad2(ymd[3])

\* Lines 68-71: the special handling by output column.
Normalise(field_name, value, utcoffset) ==
    IF field_name = "tags"
    THEN IF ~Truthy(value) THEN Ok(PyStr(""))
         ELSE IF value.k = "list" THEN Ok(PyStr(Join(value.l)))
         ELSE Raised                       \* join over a non-iterable
    ELSE IF field_name = "date"
    THEN IF ~Truthy(value) THEN Ok(PyStr(""))
         ELSE IF value.k = "int" THEN Ok(PyStr(FormatDate(value, utcoffset)))
         ELSE Raised                       \* value / 1000 on a non-number
    ELSE Ok(value)

\* Lines 60-73 for one field.
FlattenField(plugin, field, utcoffset) ==
    LET r == Resolve(plugin, field[2])
    IN  IF r.ok THEN Normalise(field[1], r.v, utcoffset) ELSE Raised

\* Lines 59-74 for one plugin: the row, as the (column, value) pairs in
\* insertion order, or the exception that escapes the loop.
FlattenRow(plugin, utcoffset) ==
    LET cells == [i \in 1..Len(Fields) |-> FlattenField(plugin, Fields[i], utcoffset)]
    IN  IF \A i \in 1..Len(Fields) : cells[i].ok
        THEN Ok([i \in 1..Len(Fields) |-> <<Fields[i][1], cells[i].v>>])
        ELSE Raised

\* Lines 57-74: processed_data, or the exception of the first failing plugin.
FlattenAll(all_plugins_, utcoffset_) ==
    LET rows == [i \in 1..Len(all_plugins_) |-> FlattenRow(all_plugins_[i], utcoffset_)]
    IN  IF \A i \in 1..Len(all_plugins_) : rows[i].ok
        THEN Ok([i \in 1..Len(all_plugins_) |-> rows[i].v])
        ELSE Raised

\* plugin[column] on a row of processed_data
RowGet(row, column) ==
    LET i == CHOOSE j \in 1..Len(row) : row[j][1] = column IN row[i][2]

RowKeys(row) == [i \in 1..Len(row) |-> row[i][1]]

(***************************************************************************)
(* Serialisation of the snapshot files and of the sinks.                   *)
(***************************************************************************)
NoFile == [text |-> "absent"]
Truncated == [text |-> "truncated"]

\* json.dump(plugins, f, indent=4): the document as JSON text
JsonDump(v) == [text |-> "json", indent |-> 4, doc |-> v]

\* A decoder that reads text that is not JSON as an empty object
JsonLoadLenient(file) ==
    IF file.text = "json" THEN Ok(file.doc) ELSE Ok(PyDict(EmptyDict))

\* json.load(f): the document, or JSONDecodeError on text that is not JSON
JsonLoad(file) == IF file.text = "json" THEN Ok(file.doc) ELSE Raised

Pad3(n) == IF n < 10 THEN "00" \o ToString(n)
           ELSE IF n < 100 THEN "0" \o ToString(n) ELSE ToString(n)

\* The text csv.DictWriter writes for one value: None as the empty field.
CsvCell(v) ==
    CASE v.k = "none" -> ""
      [] v.k = "str" -> v.s
      [] v.k = "int" -> IF v.hi = 0 THEN ToString(v.lo)
                        ELSE ToString(v.hi) \o Pad3(v.lo)

CsvRow(row) == [i \in 1..Len(Columns) |-> CsvCell(RowGet(row, Columns[i]))]

\* Line 91: the tuple bound to the INSERT statement.
DbColumns == <<"id", "name", "downloads", "rating", "pricing", "vendor", "tags", "date">>
DbRow(row) == [i \in 1..Len(DbColumns) |-> RowGet(row, DbColumns[i])]

(***************************************************************************)
(* marketplace_crawler.py: requests and responses.                         *)
(***************************************************************************)
Products ==
    <<"androidstudio", "appcode", "aqua", "clion", "dataspell", "dbe", "fleet",
      "go", "idea", "idea_ce", "mps", "phpstorm", "pycharm", "pycharm_ce",
      "rider", "ruby", "rust", "webstorm", "writerside">>

\* _build_url: the query of the request
BuildUrl(offset, max_results) ==
    [base |-> "https://plugins.jetbrains.com/api/searchPlugins",
     excludeTags |-> "internal",
     max |-> max_results,
     offset |-> offset,
     orderBy |-> "downloads",
     products |-> Products]

\* len(plugins) on a decoded payload: items of a list, keys of an object
PyLen(v) ==
    CASE v.k = "list" -> Len(v.l)
      [] v.k = "dict" -> Cardinality(DOMAIN v.d)

\* What the server may answer to one request.
HttpError == [kind |-> "http_error"]
DecodeError == [kind |-> "decode_error"]
Json(v) == [kind |-> "json", v |-> v]

\* _make_request: the decoded body, or None after a logged error
MakeRequest(response) ==
    IF response.kind = "json" THEN response.v ELSE PyNone

\* The offset of the page after the one asked for
OffsetOfNext(page_, per_page) == (page_ + 1) * per_page

\* Line 119: the offset of a page
Offset(page_, per_page) == page_ * per_page

\* Line 122: the loop goes on only with a truthy payload
HasPlugins(plugins) == Truthy(plugins)

\* A total that counts pages instead of records
AddOne(total, plugins) == total + 1

\* Line 130: total_plugins += len(plugins)
AddTotal(total, plugins) == total + PyLen(plugins)

\* A save that ignores the page number
SaveAsFirstPage(d, plugins, page_, fault) ==
    CASE fault = "none" -> [d EXCEPT ![1] = JsonDump(plugins)]
      [] fault = "open" -> d
      [] fault = "write" -> [d EXCEPT ![1] = Truncated]

\* _save_plugins: the directory after an attempt to write page_<page>.json.
\* An IOError is logged and swallowed: "open" fails before the file is
\* created, "write" fails after it was created and leaves it truncated.
SavePlugins(d, plugins, page_, fault) ==
    CASE fault = "none" -> [d EXCEPT ![page_] = JsonDump(plugins)]
      [] fault = "open" -> d
      [] fault = "write" -> [d EXCEPT ![page_] = Truncated]

SaveFaults == {"none", "open", "write"}

(***************************************************************************)
(* The marketplace: the plugin stored under each id, and the answers the   *)
(* server may give for a page.                                             *)
(***************************************************************************)
\* One plugin of the marketplace has a null vendor: the last of the first page.
OrphanId == MaxPageLen

Plugin(id) ==
    PyDict([id |-> PyInt(id),
            name |-> PyStr("plugin"),
            downloads |-> PyInt(1500),
            rating |-> PyInt(4),
            pricingModel |-> PyStr("FREE"),
            vendor |-> IF id = OrphanId THEN PyNone
                       ELSE PyDict([name |-> PyStr("Acme")]),
            tags |-> PyList(<<"a", "b", "c">>),
            cdate |-> PyMillis(1700000000, 0)])

ServerPage(page_, n) ==
    [i \in 1..n |-> Plugin(page_ * MaxPageLen + i)]

Wrapper(items) == PyDict([plugins |-> PyList(items), total |-> PyInt(Len(items))])

Responses(page_) ==
    {HttpError, DecodeError, Json(PyNone), Json(PyDict(EmptyDict))}
    \cup {Json(PyList(ServerPage(page_, n))) : n \in 0..MaxPageLen}
    \cup {Json(Wrapper(ServerPage(page_, n))) : n \in 0..MaxPageLen}

UtcOffsets == {-28800, 0, 50400}

(***************************************************************************)
(* data_processor.py: loading the snapshots and writing the sinks.         *)
(***************************************************************************)
PageKeys == 1..MaxPages

\* The files '*.json' of the directory
Files(d) == {key \in PageKeys : d[key] # NoFile}

\* The orders in which glob may yield the files: the order of the
\* directory listing, which the code does not sort.
Orders(S) ==
    {o \in [1..Cardinality(S) -> S] : \A i, j \in 1..Cardinality(S) : i # j => o[i] # o[j]}

\* Lines 46-50: all_plugins after reading the files in the given order, or
\* the exception that the except clause of line 52 catches.
RECURSIVE LoadFrom(_, _, _)
LoadFrom(d, order, acc) ==
    IF order = <<>> THEN Ok(acc)
    ELSE LET json_data == JsonLoad(d[Head(order)])
         IN  IF ~json_data.ok THEN Raised          \* JSONDecodeError
             ELSE IF json_data.v.k # "dict" THEN Raised   \* no .get on a list
             ELSE LET plugins_data == PyGet(json_data.v.d, "plugins", PyList(<<>>))
                  IN  CASE plugins_data.k = "list" ->
                               LoadFrom(d, Tail(order), acc \o plugins_data.l)
                        [] plugins_data.k \in {"none", "int"} -> Raised

LoadAll(d, order) == LoadFrom(d, order, <<>>)

NoCsv == [state |-> "absent", header |-> <<>>, rows |-> <<>>]
TornCsv == [state |-> "torn", header |-> <<>>, rows |-> <<>>]

\* Lines 77-84: the CSV file after the write.  "open" fails before the file
\* is truncated; "write" fails later and leaves a torn file.  Either
\* exception is logged and swallowed.
WriteCsv(csv_, rows, fault) ==
    CASE fault = "none" ->
             [state |-> "complete", header |-> Columns,
              rows |-> [i \in 1..Len(rows) |-> CsvRow(rows[i])]]
      [] fault = "open" -> csv_
      [] fault = "write" -> TornCsv

CsvFaults == {"none", "open", "write"}

NoTable == [exists |-> FALSE, rows |-> <<>>]

\* Lines 87-93: the database after the write, and whether an exception
\* escaped.  "connect" fails before any statement; "insert" fails after
\* CREATE TABLE, and its uncommitted rows are rolled back.  CREATE TABLE
\* itself fails when the table exists.
WriteDb(db_, rows, fault) ==
    IF fault = "connect" THEN [db |-> db_, raised |-> TRUE]
    ELSE IF db_.exists THEN [db |-> db_, raised |-> TRUE]
    ELSE IF fault = "insert" THEN [db |-> [exists |-> TRUE, rows |-> <<>>], raised |-> TRUE]
    ELSE [db |-> [exists |-> TRUE, rows |-> [i \in 1..Len(rows) |-> DbRow(rows[i])]],
          raised |-> FALSE]

DbFaults == {"none", "connect", "insert"}

(***************************************************************************)
(* State.                                                                  *)
(***************************************************************************)
VARIABLES
    pc,               \* "idle", or "crawling" inside the loop of crawl
    utcoffset,        \* UTC offset of the local time zone, in seconds
    dir,              \* plugins/page_<key>.json, by key
    max_pages, plugins_per_page, page, total_plugins,   \* locals of crawl
    requests,         \* URLs requested by the crawl
    responses,        \* answers received by the crawl
    saves,            \* fault met by each _save_plugins of the crawl
    written,          \* keys of the files the crawl created
    crawlDone,        \* crawl returned total_plugins
    listing,          \* order of the files in the last process_plugins
    all_plugins, processed_data,                         \* its locals
    csvFault, dbFault,                                   \* the faults it met
    outcome,          \* how it ended
    csv, db,          \* plugins.csv and the table of plugins.db
    raw, flat         \* argument and result of one flattening

crawlVars == <<max_pages, plugins_per_page, page, total_plugins, requests,
               responses, saves, written, crawlDone>>
transformVars == <<listing, all_plugins, processed_data, csvFault, dbFault,
                   outcome, csv, db>>
vars == <<pc, utcoffset, dir, crawlVars, transformVars, raw, flat>>

NoRecord == PyNone
NotFlattened == [ok |-> FALSE, pending |-> TRUE]

\* The state before any run, but for the directory, the sinks and the
\* time zone.
Fresh ==
    /\ pc = "idle"
    /\ max_pages = 0 /\ plugins_per_page = 1 /\ page = 0 /\ total_plugins = 0
    /\ requests = <<>> /\ responses = <<>> /\ saves = <<>>
    /\ written = {} /\ crawlDone = FALSE
    /\ listing = <<>> /\ all_plugins = <<>> /\ processed_data = <<>>
    /\ csvFault = "none" /\ dbFault = "none" /\ outcome = "none"

\* _setup_output_directory on a new checkout: an empty directory, no sinks.
Init ==
    /\ Fresh
    /\ dir = [key \in PageKeys |-> NoFile]
    /\ csv = NoCsv /\ db = NoTable
    /\ utcoffset = 0
    /\ raw = NoRecord /\ flat = NotFlattened

(***************************************************************************)
(* crawl(max_pages, plugins_per_page)                                      *)
(***************************************************************************)
\* Lines 105-116: the call and the initialisation of the total.  main
\* calls crawl once.
CrawlStart(mp, ppp) ==
    /\ pc = "idle"
    /\ ~crawlDone
    /\ pc' = "crawling"
    /\ max_pages' = mp
    /\ plugins_per_page' = ppp
    /\ page' = 0
    /\ total_plugins' = 0
    /\ requests' = <<>> /\ responses' = <<>> /\ saves' = <<>>
    /\ written' = {}
    /\ UNCHANGED <<utcoffset, dir, crawlDone, transformVars, raw, flat>>

\* Lines 118-134: one iteration of the loop: the request, the test of the
\* payload, the total and the snapshot file.
CrawlPage(response, fault) ==
    /\ pc = "crawling"
    /\ page < max_pages
    /\ LET offset == Offset(page, plugins_per_page)
           plugins == MakeRequest(response)
       IN  /\ requests' = Append(requests, BuildUrl(offset, plugins_per_page))
           /\ responses' = Append(responses, response)
           /\ IF ~HasPlugins(plugins)
              THEN /\ pc' = "idle"                  \* break, then return
                   /\ crawlDone' = TRUE
                   /\ UNCHANGED <<page, total_plugins, saves, written, dir>>
              ELSE /\ total_plugins' = AddTotal(total_plugins, plugins)
                   /\ dir' = SavePlugins(dir, plugins, page + 1, fault)
                   /\ saves' = Append(saves, fault)
                   /\ written' = written \cup {key \in PageKeys : dir'[key] # dir[key]}
                   /\ page' = page + 1
                   /\ UNCHANGED <<pc, crawlDone>>
    /\ UNCHANGED <<utcoffset, max_pages, plugins_per_page,
                   transformVars, raw, flat>>

\* Lines 118, 136: the range is exhausted and the total is returned.
CrawlReturn ==
    /\ pc = "crawling"
    /\ page >= max_pages
    /\ pc' = "idle"
    /\ crawlDone' = TRUE
    /\ UNCHANGED <<utcoffset, dir, max_pages, plugins_per_page,
                   page, total_plugins, requests, responses, saves, written,
                   transformVars, raw, flat>>

NextCrawl ==
    \/ \E mp \in 0..MaxPages, ppp \in 1..MaxPageSize : CrawlStart(mp, ppp)
    \/ \E response \in Responses(page), fault \in SaveFaults :
           CrawlPage(response, fault)
    \/ CrawlReturn

SpecCrawl == Init /\ [][NextCrawl]_vars

\* Every request ends within its timeout of 30 seconds, so a started loop
\* keeps stepping.
FairSpecCrawl ==
    /\ SpecCrawl
    /\ WF_vars(\E response \in Responses(page), fault \in SaveFaults :
                   CrawlPage(response, fault))
    /\ WF_vars(CrawlReturn)

(***************************************************************************)
(* process_plugins()                                                       *)
(***************************************************************************)
\* Lines 40-94, for one order of the directory listing and one choice of
\* the faults the sinks meet.  main calls process_plugins once; the runs
\* before it show in the sinks it finds.
ProcessPlugins(order, cfault, dfault) ==
    /\ pc = "idle"
    /\ outcome = "none"
    /\ listing' = order
    /\ LET loaded == LoadAll(dir, order)
       IN  IF ~loaded.ok
           THEN \* line 54: logged, return
                /\ outcome' = "aborted"
                /\ UNCHANGED <<all_plugins, processed_data, csvFault, dbFault, csv, db>>
           ELSE LET rows == FlattenAll(loaded.v, utcoffset)
                IN  /\ all_plugins' = loaded.v
                    /\ IF ~rows.ok
                       THEN \* the exception of line 63 escapes
                            /\ outcome' = "raised"
                            /\ UNCHANGED <<processed_data, csvFault, dbFault, csv, db>>
                       ELSE LET w == WriteDb(db, rows.v, dfault)
                            IN  /\ processed_data' = rows.v
                                /\ csvFault' = cfault
                                /\ dbFault' = dfault
                                /\ csv' = WriteCsv(csv, rows.v, cfault)
                                /\ db' = w.db
                                /\ outcome' = IF w.raised THEN "db_raised" ELSE "returned"
    /\ UNCHANGED <<pc, utcoffset, dir, crawlVars, raw, flat>>

NextTransform ==
    \E order \in Orders(Files(dir)), cfault \in CsvFaults, dfault \in DbFaults :
        ProcessPlugins(order, cfault, dfault)

\* The snapshot files a crawl can leave under one key.
SnapshotFiles(key) ==
    {NoFile, Truncated}
    \cup {JsonDump(PyList(ServerPage(key - 1, n))) : n \in 1..MaxPageLen}
    \cup {JsonDump(Wrapper(ServerPage(key - 1, n))) : n \in 0..MaxPageLen}

SnapshotDirs ==
    {d \in [PageKeys -> UNION {SnapshotFiles(key) : key \in PageKeys}] :
        \A key \in PageKeys : d[key] \in SnapshotFiles(key)}

\* The sinks an earlier run over a then empty directory left.
HeaderOnlyCsv == WriteCsv(NoCsv, <<>>, "none")
EmptyTable == WriteDb(NoTable, <<>>, "none").db

\* The processor started on the directory some crawl left, with the sinks
\* either missing or left by an earlier run.
InitTransform ==
    /\ Fresh
    /\ dir \in SnapshotDirs
    /\ \/ csv = NoCsv /\ db = NoTable
       \/ csv = HeaderOnlyCsv /\ db = EmptyTable
    /\ utcoffset = 0
    /\ raw = NoRecord /\ flat = NotFlattened

SpecTransform == InitTransform /\ [][NextTransform]_vars

(***************************************************************************)
(* The crawler and the processor run one after the other.                  *)
(***************************************************************************)
Next ==
    \/ \E mp \in 0..MaxPages, ppp \in 1..MaxPageSize : CrawlStart(mp, ppp)
    \/ \E response \in Responses(page), fault \in SaveFaults :
           CrawlPage(response, fault)
    \/ CrawlReturn
    \/ \E order \in Orders(Files(dir)), cfault \in CsvFaults, dfault \in DbFaults :
           ProcessPlugins(order, cfault, dfault)

Spec == Init /\ [][Next]_vars

(***************************************************************************)
(* The flattening of one record, over records of every shape.              *)
(***************************************************************************)
Absent == [k |-> "absent"]

\* The mapping with the given fields, those marked Absent left out.
MkPlugin(f) == PyDict([key \in {x \in DOMAIN f : f[x] # Absent} |-> f[key]])

RawRecords ==
    {MkPlugin([id |-> i, name |-> n, downloads |-> d, rating |-> PyInt(4),
               pricingModel |-> p, vendor |-> v, tags |-> t, cdate |-> c]) :
        i \in {Absent, PyNone, PyInt(7)},
        n \in {Absent, PyNone, PyStr("plugin")},
        d \in {Absent, PyInt(0)},
        p \in {Absent, PyStr("FREE")},
        v \in {Absent, PyNone, PyDict(EmptyDict), PyDict([name |-> PyStr("Acme")]),
               PyDict([name |-> PyNone]), PyStr("Acme")},
        t \in {Absent, PyNone, PyList(<<>>), PyList(<<"a", "b", "c">>), PyInt(3)},
        c \in {Absent, PyNone, PyInt(0), PyMillis(1700000000, 0), PyStr("2023")}}

InitFlatten ==
    /\ Fresh
    /\ dir = [key \in PageKeys |-> NoFile]
    /\ csv = NoCsv /\ db = NoTable
    /\ utcoffset \in UtcOffsets
    /\ raw \in RawRecords
    /\ flat = NotFlattened

\* Lines 58-74 for the record raw.
Flatten ==
    /\ flat = NotFlattened
    /\ flat' = FlattenRow(raw, utcoffset)
    /\ UNCHANGED <<pc, utcoffset, dir, crawlVars, transformVars, raw>>

NextFlatten == Flatten

SpecFlatten == InitFlatten /\ [][NextFlatten]_vars

(***************************************************************************)
(* Properties of crawl.                                                    *)
(***************************************************************************)
\* The answers _make_request is declared to turn into Optional[List[Dict]]:
\* a transport or HTTP error, a body that does not decode, an absent
\* payload and a list of records.
Declared(response) ==
    \/ response.kind \in {"http_error", "decode_error"}
    \/ response.kind = "json" /\ response.v.k \in {"none", "list"}

AllDeclared == \A i \in 1..Len(responses) : Declared(responses[i])

\* Number of records of the page an answer carries
Records(response) ==
    IF response.kind = "json" /\ response.v.k = "list" THEN Len(response.v.l) ELSE 0

\* An empty page, an absent payload or an error
Terminal(response) == Records(response) = 0

RECURSIVE SumRecords(_)
SumRecords(rs) == IF rs = <<>> THEN 0 ELSE Records(Head(rs)) + SumRecords(Tail(rs))

\* Index of the first terminal answer, or Len + 1 when there is none
FirstTerminal(rs) ==
    IF \E i \in 1..Len(rs) : Terminal(rs[i])
    THEN CHOOSE i \in 1..Len(rs) : Terminal(rs[i]) /\ \A j \in 1..(i - 1) : ~Terminal(rs[j])
    ELSE Len(rs) + 1

C2_Requests ==
    AllDeclared =>
        /\ Len(requests) = Len(responses)
        /\ Len(requests) <= max_pages
        /\ \A i \in 1..Len(requests) :
               requests[i] = BuildUrl((i - 1) * plugins_per_page, plugins_per_page)
        /\ \A i, j \in 1..Len(requests) :
               i # j => requests[i].offset # requests[j].offset
        /\ \A i \in 2..Len(requests) : ~Terminal(responses[i - 1])
        /\ (pc = "crawling" => Len(requests) = page)

Successful == Cardinality({i \in 1..Len(responses) : ~Terminal(responses[i])})

RECURSIVE RecordsInFiles(_, _)
RecordsInFiles(d, keys) ==
    IF keys = {} THEN 0
    ELSE LET key == CHOOSE x \in keys : TRUE
             doc == JsonLoad(d[key])
         IN  (IF doc.ok /\ doc.v.k = "list" THEN Len(doc.v.l) ELSE 0)
             + RecordsInFiles(d, keys \ {key})

AllSaved == \A i \in 1..Len(saves) : saves[i] = "none"

\* The records of the successful pages of the crawl, page after page
RECURSIVE PageRecords(_)
PageRecords(rs) ==
    IF rs = <<>> THEN <<>>
    ELSE (IF Records(Head(rs)) > 0 THEN Head(rs).v.l ELSE <<>>) \o PageRecords(Tail(rs))

\* C4: a run of process_plugins that follows a crawl into an empty
\* directory, all of whose pages were written, decodes the files into the
\* records of the pages and produces as many rows as the crawl returned.
C4_SnapshotsAccepted ==
    [][(crawlDone /\ pc = "idle" /\ AllDeclared /\ AllSaved /\ outcome' # outcome) =>
           /\ outcome' # "aborted"
           /\ all_plugins' = PageRecords(responses)
           /\ Len(processed_data') = total_plugins]_vars

\* The records a snapshot file holds
FileRecords(file) ==
    IF file.text # "json" THEN <<>>
    ELSE IF file.doc.k = "list" THEN file.doc.l
    ELSE IF "plugins" \in DOMAIN file.doc.d THEN file.doc.d.plugins.l
    ELSE <<>>

\* Some snapshot file of the directory is not JSON text
DecodeFails == \E key \in PageKeys : dir[key] = Truncated

\* C5: a run of process_plugins over a directory with a file that does not
\* decode ends by the logged return and leaves plugins.csv and the table as
\* they were, wherever the file comes in the listing.
C5_DecodeFailureAborts ==
    [][(DecodeFails /\ outcome' # outcome) =>
           (outcome' = "aborted" /\ csv' = csv /\ db' = db)]_vars

\* A run aborted on the last of several files, the earlier ones decoding to
\* records, and left the sinks of an earlier run as they were
C5_Witness ==
    /\ outcome = "aborted"
    /\ Len(listing) >= 2
    /\ dir[listing[Len(listing)]] = Truncated
    /\ FileRecords(dir[listing[1]]) # <<>>
    /\ dir[listing[1]].doc.k = "dict"
    /\ csv = HeaderOnlyCsv /\ db = EmptyTable

\* The run reached the sinks
ReachedSinks == outcome \in {"returned", "db_raised"}

\* C6: in a run that reaches the sinks no failure of a sink escapes: the
\* run returns; a CSV write without fault holds every row, whatever happens
\* to the table; and when the CSV write fails the table still gets every
\* row unless its own write fails.
C6_SinksIndependent ==
    ReachedSinks =>
        /\ outcome = "returned"
        /\ (csvFault = "none" =>
               csv.state = "complete" /\ Len(csv.rows) = Len(processed_data))
        /\ (csvFault # "none" /\ dbFault = "none" =>
               db.exists /\ Len(db.rows) = Len(processed_data))

\* C7: after a run that reaches the sinks and meets no fault of the
\* database, the run completed and the table holds exactly the rows of
\* this run.
C7_TableRecreated ==
    (ReachedSinks /\ dbFault = "none") =>
        /\ outcome = "returned"
        /\ db.exists
        /\ db.rows = [i \in 1..Len(processed_data) |-> DbRow(processed_data[i])]

\* The records of the files of keys key..MaxPages, in the order of the keys
RECURSIVE InPageOrder(_, _)
InPageOrder(d, key) ==
    IF key > MaxPages THEN <<>>
    ELSE FileRecords(d[key]) \o InPageOrder(d, key + 1)

\* C8: a run that loaded the files holds in all_plugins the records of all
\* files, those of page 1 before those of page 2 and so on, each file in
\* its own order.
C8_PageOrder ==
    outcome \in {"raised", "returned", "db_raised"} =>
        all_plugins = InPageOrder(dir, 1)

(***************************************************************************)
(* Properties of the flattening of one record.                             *)
(***************************************************************************)
\* Every field of the record that is present and not null has the type
\* the marketplace gives it.
WellTyped(plugin) ==
    /\ "vendor" \in DOMAIN plugin.d => plugin.d.vendor.k \in {"none", "dict"}
    /\ "tags" \in DOMAIN plugin.d => plugin.d.tags.k \in {"none", "list"}
    /\ "cdate" \in DOMAIN plugin.d => plugin.d.cdate.k \in {"none", "int"}

Flattened == flat # NotFlattened

\* C9: flattening a record gives one row whose keys are the columns of the
\* field map in their order and whose values are never null, the empty
\* string standing for a field the record lacks.
C9_FieldMapComplete ==
    (Flattened /\ WellTyped(raw)) =>
        /\ flat.ok
        /\ RowKeys(flat.v) = Columns
        /\ \A i \in 1..Len(flat.v) : flat.v[i][2] # PyNone
        /\ \A i \in 1..Len(Fields) :
               (Len(Fields[i][2]) = 1 /\ Fields[i][2][1] \notin DOMAIN raw.d) =>
                   flat.v[i][2] = PyStr("")

\* The vendor of the record is a mapping with a name
HasVendorName(plugin) ==
    /\ "vendor" \in DOMAIN plugin.d
    /\ plugin.d.vendor.k = "dict"
    /\ "name" \in DOMAIN plugin.d.vendor.d

\* C10: flattening a record completes, and its vendor column is the name of
\* the vendor when the vendor is a mapping with a name, and the empty
\* string when the vendor is {}, null or absent.
C10_VendorName ==
    (Flattened /\ WellTyped(raw)) =>
        /\ flat.ok
        /\ RowGet(flat.v, "vendor") =
               IF HasVendorName(raw) THEN raw.d.vendor.d.name ELSE PyStr("")
====
